---------------------------- MODULE Spec2Model ----------------------------
(***************************************************************************)
(* A model of khinsider_downloader.py: the album parser                    *)
(* (KhinsiderAlbum.__init__), the identifier and URL helpers (parse_id,    *)
(* _scrape_download_url, _parse_filename), format_bytes, and the download  *)
(* loop (KhinsiderAlbum.download) against an output directory.             *)
(*                                                                         *)
(* Python strings are modelled as sequences of one-character strings, so   *)
(* that splitting, replacing and percent-decoding are computed and not     *)
(* assumed.  Byte counts are modelled as little-endian sequences of        *)
(* base-1000 digits ("limbs"), because they exceed TLC's integers.         *)
(***************************************************************************)
EXTENDS Integers, Sequences, FiniteSets, TLC

VARIABLES
    \* ---- KhinsiderAlbum.download and the output directory -------------
    site,                    \* the remote track pages, by position in soundtrack_urls
    formats_and_sizes,       \* self.formats_and_sizes (the format names)
    dir,                     \* the output directory: "noparent", "absent" or "dir"
    files,                   \* the files directly under out_dir: name -> content
    pc,                      \* where the current call of download stands
    audio_format_selection,  \* download's second argument
    k,                       \* position of the loop in self.soundtrack_urls
    download_count,
    skip_count,
    log,                     \* the requests and file operations of the current call
    completed,               \* format indices for which a call has run to its end
    rerun,                   \* the current call repeats a completed one
    fresh,                   \* the current call started without any of the album's files
    partial,                 \* (track, format index) pairs whose transfer failed mid-stream
    calls,                   \* number of calls of download so far
    \* ---- parse_id ------------------------------------------------------
    id_given,                \* the identifier the input was built from
    url_to_album,            \* parse_id's argument
    album_id,                \* parse_id's result
    \* ---- _scrape_download_url, _parse_filename -------------------------
    href,                    \* the raw href of the selected download link
    download_url,            \* _scrape_download_url's result
    filename,                \* _parse_filename's result
    \* ---- format_bytes --------------------------------------------------
    bytes_list,              \* format_bytes's argument
    formatted,               \* format_bytes's result
    \* ---- KhinsiderAlbum.__init__ ----------------------------------------
    album_page,              \* the fetched album page
    album                    \* the constructed object, or the exception raised

dlVars == <<site, formats_and_sizes, dir, files, pc, audio_format_selection, k,
            download_count, skip_count, log, completed, rerun, fresh, partial, calls>>
idVars == <<id_given, url_to_album, album_id>>
urlVars == <<href, download_url, filename>>
bytesVars == <<bytes_list, formatted>>
albumVars == <<album_page, album>>
vars == <<dlVars, idVars, urlVars, bytesVars, albumVars>>

\* A variable of a part of the program that a specification leaves out.
Unused == "unused"

\* What a function call yields: a value, or the exception it raises.
Ok(v) == [err |-> "", val |-> v]
Raise(e) == [err |-> e, val |-> <<>>]
\* A call that has not been made yet.
Pending == [err |-> "pending", val |-> <<>>]
Returned(r) == r.err = ""

-----------------------------------------------------------------------------
(* Bounds of the model.                                                    *)
MaxIdLen == 3        \* longest identifier given to parse_id
MaxHrefLen == 4      \* longest raw href given to _scrape_download_url
MaxLimbs == 5        \* longest byte count, in base-1000 digits
MaxListLen == 2      \* longest bytes_list
MaxTh == 5           \* most th cells of the soundtracks table
MaxClickable == 5    \* most clickable-row cells after the table
MaxTracks == 2       \* most tracks of an album
MaxFormats == 2      \* most formats of an album
MaxPreexisting == 1  \* most files in the directory before the first call
MaxCalls == 2        \* most calls of download

-----------------------------------------------------------------------------
(* Python strings as sequences of characters.                              *)

\* s[from:] for a 1-based position.
Tail_(s, from) == SubSeq(s, from, Len(s))

\* sub in s
Contains(s, sub) ==
    \E i \in 1..(Len(s) - Len(sub) + 1) : SubSeq(s, i, i + Len(sub) - 1) = sub

\* The position of the last occurrence of character c in s, 0 if none.
LastIndexOf(s, c) ==
    IF \E i \in 1..Len(s) : s[i] = c
    THEN CHOOSE i \in 1..Len(s) : s[i] = c /\ \A j \in (i+1)..Len(s) : s[j] # c
    ELSE 0

\* s.rsplit(c, 1): <<head, tail>> when c occurs in s, <<s>> otherwise.
RSplit1(s, c) ==
    LET p == LastIndexOf(s, c)
    IN  IF p = 0 THEN <<s>> ELSE <<SubSeq(s, 1, p - 1), Tail_(s, p + 1)>>

\* s.replace(old, new): left to right, occurrences that do not overlap.
RECURSIVE Replace(_, _, _)
Replace(s, old, new) ==
    IF Len(s) < Len(old) THEN s
    ELSE IF SubSeq(s, 1, Len(old)) = old
         THEN new \o Replace(Tail_(s, Len(old) + 1), old, new)
         ELSE <<s[1]>> \o Replace(Tail_(s, 2), old, new)

\* All strings over alphabet of length at most n.
StringsUpTo(alphabet, n) == UNION {[1..m -> alphabet] : m \in 0..n}

-----------------------------------------------------------------------------
(* Module constants and parse_id.                                          *)

BASE_URL ==
    <<"h","t","t","p","s",":","/","/","d","o","w","n","l","o","a","d","s",".",
      "k","h","i","n","s","i","d","e","r",".","c","o","m">>

BASE_ALBUM_URL ==
    BASE_URL \o <<"/","g","a","m","e","-","s","o","u","n","d","t","r","a","c","k","s",
                  "/","a","l","b","u","m">>

\* parse_id without the split: the input is returned as it is.
parse_id_verbatim(u) == u

parse_id(u) ==
    IF Contains(u, BASE_ALBUM_URL)
    THEN RSplit1(u, "/")[2]
    ELSE u

-----------------------------------------------------------------------------
(* urllib.parse.unquote, _scrape_download_url's adjustment, _parse_filename *)

HexDigits == <<"0","1","2","3","4","5","6","7","8","9","a","b","c","d","e","f">>
UpperHex == <<"0","1","2","3","4","5","6","7","8","9","A","B","C","D","E","F">>

IsHex(c) == \E i \in 1..16 : HexDigits[i] = c \/ UpperHex[i] = c

HexVal(c) == (CHOOSE i \in 1..16 : HexDigits[i] = c \/ UpperHex[i] = c) - 1

\* The printable ASCII characters, 0x20 to 0x7e (the double quote, the
\* backslash and the backtick by name).
Printable ==
    <<" ","!","QUOTE","#","$","%","&","'","(",")","*","+",",","-",".","/",
      "0","1","2","3","4","5","6","7","8","9",":",";","<","=",">","?",
      "@","A","B","C","D","E","F","G","H","I","J","K","L","M","N","O",
      "P","Q","R","S","T","U","V","W","X","Y","Z","[","BACKSLASH","]","^","_",
      "BACKTICK","a","b","c","d","e","f","g","h","i","j","k","l","m","n","o",
      "p","q","r","s","t","u","v","w","x","y","z","{","|","}","~">>

\* The character one decoded byte stands for.  A byte from 0x80 that starts no
\* valid UTF-8 sequence decodes to U+FFFD (errors='replace'); the hrefs of the
\* model hold no continuation byte, so every such byte stands alone.
Chr(b) ==
    IF b >= 128 THEN "U+FFFD"
    ELSE IF b >= 32 /\ b <= 126 THEN Printable[b - 31]
    ELSE "CTRL"

\* unquote(s): each %XX with two hexadecimal digits becomes its character, in
\* one pass; any other % stays.
RECURSIVE unquote(_)
unquote(s) ==
    IF s = <<>> THEN <<>>
    ELSE IF s[1] = "%" /\ Len(s) >= 3 /\ IsHex(s[2]) /\ IsHex(s[3])
         THEN <<Chr(16 * HexVal(s[2]) + HexVal(s[3]))>> \o unquote(Tail_(s, 4))
         ELSE <<s[1]>> \o unquote(Tail_(s, 2))

Hash == <<"#">>
Pct23 == <<"%","2","3">>

\* Line 255: unquote(download_url).replace('#', '%23')
unquote_and_escape(raw) == Replace(unquote(raw), Hash, Pct23)

\* _parse_filename that restores no '#'.
last_segment_only(u) ==
    LET parts == RSplit1(u, "/")
    IN  IF Len(parts) < 2 THEN Raise("IndexError") ELSE Ok(parts[2])

\* _parse_filename: download_url.rsplit('/', 1)[1].replace('%23', '#')
_parse_filename(u) ==
    LET parts == RSplit1(u, "/")
    IN  IF Len(parts) < 2 THEN Raise("IndexError")
        ELSE Ok(Replace(parts[2], Pct23, Hash))

-----------------------------------------------------------------------------
(* Values of the variables a specification leaves out.                     *)

DlUnused ==
    /\ site = Unused /\ formats_and_sizes = Unused /\ dir = Unused
    /\ files = Unused /\ pc = Unused /\ audio_format_selection = Unused
    /\ k = Unused /\ download_count = Unused /\ skip_count = Unused
    /\ log = Unused /\ completed = Unused /\ rerun = Unused /\ fresh = Unused
    /\ partial = Unused /\ calls = Unused
IdUnused == id_given = Unused /\ url_to_album = Unused /\ album_id = Unused
UrlUnused == href = Unused /\ download_url = Unused /\ filename = Unused
BytesUnused == bytes_list = Unused /\ formatted = Unused
AlbumUnused == album_page = Unused /\ album = Unused

-----------------------------------------------------------------------------
(* SpecId: parse_id on identifiers, on album URLs built from them, and on  *)
(* longer text that holds such a URL.                                      *)

IdAlphabet == {"/", "a", "-"}

InitId ==
    /\ id_given \in StringsUpTo(IdAlphabet, MaxIdLen)
    /\ url_to_album \in {id_given,
                         BASE_ALBUM_URL \o <<"/">> \o id_given,
                         <<"x">> \o BASE_ALBUM_URL \o <<"/">> \o id_given}
    /\ album_id = Pending
    /\ DlUnused /\ UrlUnused /\ BytesUnused /\ AlbumUnused

ParseId ==
    /\ album_id = Pending
    /\ album_id' = Ok(parse_id(url_to_album))
    /\ UNCHANGED <<id_given, url_to_album, dlVars, urlVars, bytesVars, albumVars>>

NextId == ParseId

SpecId == InitId /\ [][NextId]_vars

IsFullUrl == url_to_album = BASE_ALBUM_URL \o <<"/">> \o id_given
IsBareId == url_to_album = id_given

\* C6 as claimed: parse_id gives back the identifier of every album URL built
\* from it, and every bare identifier, also when the identifier holds a '/'
\* or the URL ends in '/'.
C6_RoundTripAnyId ==
    album_id # Pending =>
        /\ IsFullUrl => album_id.val = id_given
        /\ IsBareId => album_id.val = id_given

\* C6 as amended: parse_id gives back the identifier of an album URL built
\* from it when the identifier holds no '/', and every bare identifier
\* (with or without '/').
C6_RoundTripNoSlash ==
    album_id # Pending =>
        /\ (IsFullUrl /\ ~Contains(id_given, <<"/">>)) => album_id.val = id_given
        /\ IsBareId => album_id.val = id_given

C6_Witness ==
    /\ album_id # Pending
    /\ IsFullUrl
    /\ id_given = <<"a", "-", "a">>
    /\ album_id.val = id_given

-----------------------------------------------------------------------------
(* SpecUrl: the adjustment of a raw href and the filename derived from it. *)

UrlAlphabet == {"%", "2", "3", "f", "/", "#", "x"}

InitUrl ==
    /\ href \in StringsUpTo(UrlAlphabet, MaxHrefLen)
    /\ download_url = Pending
    /\ filename = Pending
    /\ DlUnused /\ IdUnused /\ BytesUnused /\ AlbumUnused

\* Line 255 of _scrape_download_url, on the href the page gave.
ScrapeAdjust ==
    /\ download_url = Pending
    /\ download_url' = Ok(unquote_and_escape(href))
    /\ UNCHANGED <<href, filename, dlVars, idVars, bytesVars, albumVars>>

\* Line 329 of download: the filename of the adjusted URL.
ParseFilename ==
    /\ download_url # Pending
    /\ filename = Pending
    /\ filename' = _parse_filename(download_url.val)
    /\ UNCHANGED <<href, download_url, dlVars, idVars, bytesVars, albumVars>>

NextUrl == ScrapeAdjust \/ ParseFilename

SpecUrl == InitUrl /\ [][NextUrl]_vars

\* An escape %23 of the raw href that decodes into the last path segment: the
\* decoded text before it holds a '/', the decoded text after it holds none.
EscapedHashInLastSegment ==
    \E i \in 1..(Len(href) - 2) :
        /\ SubSeq(href, i, i + 2) = Pct23
        /\ Contains(unquote(SubSeq(href, 1, i - 1)), <<"/">>)
        /\ ~Contains(unquote(Tail_(href, i + 3)), <<"/">>)

\* C7 as claimed: for every raw href that holds %23, the filename obtained
\* from it holds '#' and no %23, and the adjusted download URL holds no '#'.
C7_HashKeptAnyHref ==
    /\ download_url # Pending => ~Contains(download_url.val, Hash)
    /\ (filename # Pending /\ Returned(filename) /\ Contains(href, Pct23)) =>
            /\ Contains(filename.val, Hash)
            /\ ~Contains(filename.val, Pct23)

\* C7 as amended: for every raw href that holds %23 in its last path segment
\* (a '/' before it and none after it, once decoded), the filename holds '#'
\* and no %23; the adjusted download URL of any href holds no '#'.
C7_HashKeptInLastSegment ==
    /\ download_url # Pending => ~Contains(download_url.val, Hash)
    /\ (filename # Pending /\ EscapedHashInLastSegment) =>
            /\ Returned(filename)
            /\ Contains(filename.val, Hash)
            /\ ~Contains(filename.val, Pct23)

C7_Witness ==
    /\ href = <<"/", "%", "2", "3">>
    /\ download_url = Ok(<<"/", "%", "2", "3">>)
    /\ filename = Ok(<<"#">>)

-----------------------------------------------------------------------------
(* Byte counts: natural numbers as little-endian sequences of base-1000    *)
(* digits, <<0>> for zero and no leading zero otherwise.                   *)

RECURSIVE Normalize(_)
Normalize(a) ==
    IF Len(a) > 1 /\ a[Len(a)] = 0 THEN Normalize(SubSeq(a, 1, Len(a) - 1))
    ELSE IF a = <<>> THEN <<0>> ELSE a

\* a < b
NumLess(a, b) ==
    \/ Len(a) < Len(b)
    \/ /\ Len(a) = Len(b)
       /\ \E i \in 1..Len(a) :
            /\ a[i] < b[i]
            /\ \A j \in (i+1)..Len(a) : a[j] = b[j]

\* a * m for a small m, with the carry c.
RECURSIVE MulSmall(_, _, _)
MulSmall(a, m, c) ==
    IF a = <<>> THEN (IF c = 0 THEN <<>> ELSE <<c>>)
    ELSE LET t == a[1] * m + c
         IN  <<t % 1000>> \o MulSmall(Tail(a), m, t \div 1000)

\* Quotient and remainder of a by a small d.
RECURSIVE DivMod(_, _)
DivMod(a, d) ==
    IF a = <<>> THEN [q |-> <<>>, r |-> 0]
    ELSE LET hi == DivMod(Tail(a), d)
             cur == hi.r * 1000 + a[1]
         IN  [q |-> <<cur \div d>> \o hi.q, r |-> cur % d]

\* The value of a, for an a that fits TLC's integers.
RECURSIVE ToInt(_)
ToInt(a) == IF a = <<>> THEN 0 ELSE a[1] + 1000 * ToInt(Tail(a))

\* a divided n times by 1024: the quotient, the last remainder, and whether
\* an earlier remainder was not zero.
RECURSIVE DivPow1024(_, _)
DivPow1024(a, n) ==
    IF n = 0 THEN [q |-> a, r |-> 0, sticky |-> FALSE]
    ELSE LET prev == DivPow1024(a, n - 1)
             dm == DivMod(prev.q, 1024)
         IN  [q |-> Normalize(dm.q), r |-> dm.r, sticky |-> prev.sticky \/ prev.r # 0]

\* The decimal digits of a natural number.
DecimalDigits == <<"0","1","2","3","4","5","6","7","8","9">>

RECURSIVE Digits(_)
Digits(n) ==
    IF n < 10 THEN <<DecimalDigits[n + 1]>>
    ELSE Digits(n \div 10) \o <<DecimalDigits[(n % 10) + 1]>>

-----------------------------------------------------------------------------
(* format_bytes                                                            *)

\* max(bytes_list), for a list that is not empty.
RECURSIVE MaxOf(_)
MaxOf(l) ==
    IF Len(l) = 1 THEN l[1]
    ELSE LET m == MaxOf(Tail(l))
         IN  IF NumLess(l[1], m) THEN m ELSE l[1]

\* Lines 115-118: the number of times the loop divides max_bytes by 1000.
\* The loop divides a float; its test max_bytes >= 1000 agrees with the test
\* on the integer quotient for every count below 2^53.
RECURSIVE UnitIndex(_)
UnitIndex(max_bytes) ==
    IF Len(max_bytes) >= 2 THEN 1 + UnitIndex(Tail(max_bytes)) ELSE 0

\* Lines 109-114 and 119: unit_dict.get(index), None past GB.
unit_dict == <<<<"B">>, <<"K","B">>, <<"M","B">>, <<"G","B">>>>

UnitOfIndex(index) ==
    IF index + 1 \in DOMAIN unit_dict THEN unit_dict[index + 1] ELSE <<"N","o","n","e">>

\* b / (1024 ** index) in tenths, rounded to the nearest and to even on a tie,
\* as .1f renders the quotient (exact in a float for every b below 2^53).
Tenths(b, index) ==
    LET d == DivPow1024(Normalize(MulSmall(b, 10, 0)), index)
        q == ToInt(d.q)
        up == \/ d.r > 512
              \/ d.r = 512 /\ d.sticky
              \/ d.r = 512 /\ ~d.sticky /\ q % 2 = 1
    IN  IF index > 0 /\ up THEN q + 1 ELSE q

\* Line 120: f'{b / (1024 ** index):.1f} {unit}'
FormatOne(b, index) ==
    LET t == Tenths(b, index)
    IN  Digits(t \div 10) \o <<".">> \o Digits(t % 10) \o <<" ">> \o UnitOfIndex(index)

format_bytes(l) ==
    IF l = <<>> THEN Raise("ValueError")
    ELSE LET index == UnitIndex(MaxOf(l))
         IN  Ok([i \in 1..Len(l) |-> FormatOne(l[i], index)])

-----------------------------------------------------------------------------
(* SpecBytes: format_bytes on lists of byte counts.                        *)

\* Byte counts below 2^53 (9,007,199,254,740,992), which a float holds exactly.
IsExactInFloat(b) == Len(b) <= 5 \/ (Len(b) = 6 /\ b[6] < 9)

SampleSizes ==
    {<<0>>} \cup
    {b \in {[i \in 1..n |-> IF i = n THEN top ELSE fill] :
                top \in {1, 256, 999}, fill \in {0, 999}, n \in 1..MaxLimbs} :
        IsExactInFloat(b)}

InitBytes ==
    /\ bytes_list \in UNION {[1..n -> SampleSizes] : n \in 0..MaxListLen}
    /\ formatted = Pending
    /\ DlUnused /\ IdUnused /\ UrlUnused /\ AlbumUnused

FormatBytes ==
    /\ formatted = Pending
    /\ formatted' = format_bytes(bytes_list)
    /\ UNCHANGED <<bytes_list, dlVars, idVars, urlVars, albumVars>>

NextBytes == FormatBytes

SpecBytes == InitBytes /\ [][NextBytes]_vars

\* The unit a formatted string carries: the text after its space.
UnitOf(str) == RSplit1(str, " ")[2]

\* C8: for every list that is not empty, format_bytes returns a list of the
\* same length whose strings all carry one unit, the unit is one of B, KB, MB
\* and GB, and it is the one reached from the maximum in steps of 1000.
C8_OneUnitOfFour ==
    (formatted # Pending /\ bytes_list # <<>>) =>
        /\ Returned(formatted)
        /\ Len(formatted.val) = Len(bytes_list)
        /\ \A i, j \in 1..Len(formatted.val) :
                UnitOf(formatted.val[i]) = UnitOf(formatted.val[j])
        /\ LET steps == UnitIndex(MaxOf(bytes_list))
           IN  /\ steps + 1 \in DOMAIN unit_dict
               /\ \A i \in 1..Len(formatted.val) :
                    UnitOf(formatted.val[i]) = unit_dict[steps + 1]

-----------------------------------------------------------------------------
(* KhinsiderAlbum.__init__                                                 *)

IsSpace(c) == c \in {" ", "TAB", "NEWLINE"}

\* text.strip()
RECURSIVE Strip(_)
Strip(t) ==
    IF t = <<>> THEN t
    ELSE IF IsSpace(t[1]) THEN Strip(Tail(t))
    ELSE IF IsSpace(t[Len(t)]) THEN Strip(SubSeq(t, 1, Len(t) - 1))
    ELSE t

\* s.split(' ')[0]: the text before the first space.
BeforeFirstSpace(t) ==
    IF \E i \in 1..Len(t) : t[i] = " "
    THEN SubSeq(t, 1, (CHOOSE i \in 1..Len(t) : t[i] = " " /\ \A j \in 1..(i-1) : t[j] # " ") - 1)
    ELSE t

IsDigit(c) == \E i \in 1..10 : DecimalDigits[i] = c
DigitVal(c) == (CHOOSE i \in 1..10 : DecimalDigits[i] = c) - 1

\* The number a run of decimal digits writes.
RECURSIVE FromDigits(_)
FromDigits(ds) ==
    IF ds = <<>> THEN <<>>
    ELSE MulSmall(FromDigits(SubSeq(ds, 1, Len(ds) - 1)), 10, DigitVal(ds[Len(ds)]))

\* n * 1_000_000
TimesMillion(n) == IF n = <<0>> THEN n ELSE <<0, 0>> \o n

\* Line 172: int(s.split(' ')[0].replace(',', '')) * 1_000_000.  int() raises
\* ValueError unless the text is a run of digits (the cell texts of the model
\* hold no sign, underscore or other text int() accepts).
ParseMegabytes(t) ==
    LET ds == Replace(BeforeFirstSpace(t), <<",">>, <<>>)
    IN  IF ds # <<>> /\ \A i \in 1..Len(ds) : IsDigit(ds[i])
        THEN Ok(TimesMillion(Normalize(FromDigits(ds))))
        ELSE Raise("ValueError")

\* l[start:stop] for a start and a stop below zero.
SliceFromEnd(l, start, stop) ==
    LET lo == IF Len(l) + start < 0 THEN 0 ELSE Len(l) + start
        hi == IF Len(l) + stop < 0 THEN 0 ELSE Len(l) + stop
    IN  SubSeq(l, lo + 1, hi)

MP3 == <<"M", "P", "3">>

\* Lines 156-164: the header texts from the MP3 cell up to the first empty one.
RECURSIVE CollectFormats(_, _)
CollectFormats(th_list, i) ==
    IF i > Len(th_list) THEN <<>>
    ELSE LET f == Strip(th_list[i])
         IN  IF f # <<>> THEN <<f>> \o CollectFormats(th_list, i + 1) ELSE <<>>

\* Line 152: the first header cell whose text is MP3, 0 when there is none.
Mp3Index(th_list) ==
    IF \E i \in 1..Len(th_list) : th_list[i] = MP3
    THEN CHOOSE i \in 1..Len(th_list) :
            th_list[i] = MP3 /\ \A j \in 1..(i-1) : th_list[j] # MP3
    ELSE 0

AlbumFormats(th_list) == CollectFormats(th_list, Mp3Index(th_list))

\* Line 168: the cells the duration and the sizes are read from.
DurationAndSizes(th_list) ==
    SliceFromEnd(th_list, -(Len(AlbumFormats(th_list)) + 2), -1)

\* Lines 178-179: every fourth clickable-row cell, from the first.
SoundtrackUrls(clickable) ==
    LET kept == {i \in 1..Len(clickable) : (i - 1) % 4 = 0}
    IN  [n \in 1..Cardinality(kept) |-> BASE_URL \o clickable[4 * (n - 1) + 1]]

\* zip(a, b)
Zip(a, b) ==
    LET n == IF Len(a) < Len(b) THEN Len(a) ELSE Len(b)
    IN  [i \in 1..n |-> <<a[i], b[i]>>]

Oops == <<"O", "o", "o", "p", "s", "!">>

\* __init__ on the fetched page: the object, or the exception raised.
KhinsiderAlbum(page) ==
    IF page.title = Oops THEN Raise("ConnectionRefusedError")
    ELSE IF page.tables < 2 THEN Raise("IndexError")
    ELSE IF Mp3Index(page.th_list) = 0 THEN Raise("StopIteration")
    ELSE LET album_formats == AlbumFormats(page.th_list)
             cells == DurationAndSizes(page.th_list)
         IN  IF cells = <<>> THEN Raise("ValueError")
             ELSE LET parsed == [i \in 1..(Len(cells) - 1) |-> ParseMegabytes(cells[i + 1])]
                  IN  IF \E i \in 1..Len(parsed) : ~Returned(parsed[i])
                      THEN Raise("ValueError")
                      ELSE LET sizes == format_bytes([i \in 1..Len(parsed) |-> parsed[i].val])
                           IN  IF ~Returned(sizes) THEN sizes
                               ELSE Ok([title |-> page.title,
                                        duration |-> cells[1],
                                        formats_and_sizes |-> Zip(album_formats, sizes.val),
                                        soundtrack_urls |-> SoundtrackUrls(page.clickable)])

-----------------------------------------------------------------------------
(* SpecAlbum: the constructor on album pages.                              *)

CellTexts ==
    {MP3, <<>>, <<"3", "2", "0", " ", "k">>, <<"1", ":", "2">>, <<"5", " ", "M", "B">>}

\* The clickable-row cells of a page with c of them: four per track row, each
\* linking to the row's track page.
ClickableCells(c) == [i \in 1..c |-> <<"/", "t", DecimalDigits[((i - 1) \div 4) + 1]>>]

InitAlbum ==
    /\ album_page \in [title : {Oops, <<"T">>},
                       tables : {1, 2},
                       th_list : UNION {[1..n -> CellTexts] : n \in 0..MaxTh},
                       clickable : {ClickableCells(c) : c \in 0..MaxClickable}]
    /\ album = Pending
    /\ DlUnused /\ IdUnused /\ UrlUnused /\ BytesUnused

Construct ==
    /\ album = Pending
    /\ album' = KhinsiderAlbum(album_page)
    /\ UNCHANGED <<album_page, dlVars, idVars, urlVars, bytesVars>>

NextAlbum == Construct

SpecAlbum == InitAlbum /\ [][NextAlbum]_vars

\* C9: construction succeeds only if as many size cells were read as format
\* names were collected; the formats of a constructed album are as many as
\* the collected names.
C9_SizeCountChecked ==
    (album # Pending /\ Returned(album)) =>
        /\ Len(DurationAndSizes(album_page.th_list)) - 1
                = Len(AlbumFormats(album_page.th_list))
        /\ Len(album.val.formats_and_sizes) = Len(AlbumFormats(album_page.th_list))

-----------------------------------------------------------------------------
(* KhinsiderAlbum.download: the track pages, the directory, the loop.      *)

\* Raw hrefs of download links: two plain files, a file whose name holds an
\* escaped '#', an href without any '/', and an href that ends in '/'.
HrefA == <<"/", "a">>
HrefB == <<"/", "b">>
HrefHash == <<"/", "%", "2", "3">>
HrefNoSlash == <<"a">>
HrefDir == <<"a", "/">>

\* Track pages: the hrefs of the page's download links, in document order.
TrackPages ==
    {<<>>, <<HrefA, HrefB>>, <<HrefHash, HrefB>>, <<HrefNoSlash, HrefDir>>}

FormatNames == <<"MP3", "FLAC", "OGG", "M4A">>

\* The values given as audio_format_selection.
FormatChoices == (-1)..MaxFormats

\* Line 249: find_all(...)[audio_select], with Python's indexing: an index
\* from -len to -1 counts from the end, any other index outside 0..len-1
\* raises IndexError.
SelectLink(links, audio_select) ==
    IF audio_select >= 0 /\ audio_select < Len(links) THEN Ok(links[audio_select + 1])
    ELSE IF audio_select < 0 /\ audio_select >= -Len(links)
         THEN Ok(links[Len(links) + audio_select + 1])
         ELSE Raise("IndexError")

\* _scrape_download_url on a page that was fetched.
_scrape_download_url(page, audio_select) ==
    LET link == SelectLink(page, audio_select)
    IN  IF Returned(link) THEN Ok(unquote_and_escape(link.val)) ELSE link

\* Lines 328-330: the download URL and the filename of track t.
Resolve(t, audio_select) ==
    LET u == _scrape_download_url(site[t], audio_select)
    IN  IF ~Returned(u) THEN u
        ELSE LET f == _parse_filename(u.val)
             IN  IF ~Returned(f) THEN f
                 ELSE Ok([download_url |-> u.val, filename |-> f.val])

\* isfile that never finds the file.
isfile_never(fls, name) == FALSE

\* Line 333: isfile(filepath), for a path directly under out_dir.
isfile(fls, name) == name \in DOMAIN fls

\* The directory with the file name holding content.
WithFile(fls, name, content) ==
    [n \in DOMAIN fls \cup {name} |-> IF n = name THEN content ELSE fls[n]]

NoFiles == [n \in {} |-> "old"]

\* The names the hrefs of the model resolve to.
FileNames ==
    {_parse_filename(unquote_and_escape(h)).val :
        h \in {h \in UNION {{p[i] : i \in DOMAIN p} : p \in TrackPages} :
                    Returned(_parse_filename(unquote_and_escape(h)))}} \ {<<>>}

\* open(filepath, 'wb') raises when the path names no file: an empty filename
\* leaves the path of the directory itself.
OpenRaisesFor(name) == name = <<>>

\* _create_output_directory that creates nothing.
mkdir_forgotten(d) == IF d = "noparent" THEN Raise("FileNotFoundError") ELSE Ok(d)

\* _create_output_directory: mkdir, an existing directory is no error, a
\* missing parent is.
_create_output_directory(d) ==
    IF d = "noparent" THEN Raise("FileNotFoundError") ELSE Ok("dir")

\* One iteration's requests and file operations.
Entry(t, result, name, stream_get, opened) ==
    [track |-> t, result |-> result, name |-> name,
     stream_get |-> stream_get, opened |-> opened]

TransportFailures == {"page_request_failed", "stream_request_failed", "stream_failed"}

Init ==
    /\ site \in UNION {[1..n -> TrackPages] : n \in 0..MaxTracks}
    /\ formats_and_sizes \in {SubSeq(FormatNames, 1, n) : n \in 1..MaxFormats}
    /\ dir \in {"noparent", "absent", "dir"}
    /\ files \in IF dir = "dir"
                 THEN UNION {[S -> {"old"}] :
                                S \in {S \in SUBSET FileNames : Cardinality(S) <= MaxPreexisting}}
                 ELSE {NoFiles}
    /\ pc = "idle"
    /\ audio_format_selection = 0
    /\ k = 1
    /\ download_count = 0
    /\ skip_count = 0
    /\ log = <<>>
    /\ completed = {}
    /\ rerun = FALSE
    /\ fresh = FALSE
    /\ partial = {}
    /\ calls = 0
    /\ IdUnused /\ UrlUnused /\ BytesUnused /\ AlbumUnused

others == <<idVars, urlVars, bytesVars, albumVars>>

\* None of the files the album resolves to under sel is in the directory.
NoneOfTheAlbum(sel) ==
    \A t \in 1..Len(site) :
        Returned(Resolve(t, sel)) => Resolve(t, sel).val.filename \notin DOMAIN files

\* Lines 324-326: a call of download, up to the loop.
StartDownload ==
    /\ pc \in {"idle", "finished", "failed", "crashed"}
    /\ calls < MaxCalls
    /\ \E sel \in FormatChoices :
        /\ audio_format_selection' = sel
        /\ rerun' = (sel \in completed)
        /\ fresh' = (dir # "dir" \/ NoneOfTheAlbum(sel))
    /\ LET made == _create_output_directory(dir)
       IN  IF Returned(made)
           THEN dir' = made.val /\ pc' = "loop"
           ELSE dir' = dir /\ pc' = "crashed"
    /\ calls' = calls + 1
    /\ k' = 1
    /\ download_count' = 0
    /\ skip_count' = 0
    /\ log' = <<>>
    /\ UNCHANGED <<site, formats_and_sizes, files, completed, partial, others>>

InLoop == pc = "loop" /\ k <= Len(site)

\* Line 245: the request for the track page raises RequestException.
PageRequestFails ==
    /\ InLoop
    /\ pc' = "failed"
    /\ log' = Append(log, Entry(k, "page_request_failed", <<>>, FALSE, FALSE))
    /\ UNCHANGED <<site, formats_and_sizes, dir, files, audio_format_selection, k,
                   download_count, skip_count, completed, rerun, fresh, partial,
                   calls, others>>

\* Lines 249 and 274: no link at the index, or no '/' in the download URL.
ResolveRaises ==
    /\ InLoop
    /\ ~Returned(Resolve(k, audio_format_selection))
    /\ pc' = "crashed"
    /\ log' = Append(log, Entry(k, Resolve(k, audio_format_selection).err, <<>>, FALSE, FALSE))
    /\ UNCHANGED <<site, formats_and_sizes, dir, files, audio_format_selection, k,
                   download_count, skip_count, completed, rerun, fresh, partial,
                   calls, others>>

\* The skip branch with the file opened for writing before the test.
SkipTruncating ==
    /\ InLoop
    /\ Returned(Resolve(k, audio_format_selection))
    /\ LET name == Resolve(k, audio_format_selection).val.filename
       IN  /\ isfile(files, name)
           /\ files' = WithFile(files, name, "empty")
           /\ log' = Append(log, Entry(k, "skipped", name, FALSE, TRUE))
    /\ skip_count' = skip_count + 1
    /\ k' = k + 1
    /\ UNCHANGED <<site, formats_and_sizes, dir, pc, audio_format_selection,
                   download_count, completed, rerun, fresh, partial, calls, others>>

\* Lines 333-336: the file exists, the track is skipped.
Skip ==
    /\ InLoop
    /\ Returned(Resolve(k, audio_format_selection))
    /\ LET name == Resolve(k, audio_format_selection).val.filename
       IN  /\ isfile(files, name)
           /\ log' = Append(log, Entry(k, "skipped", name, FALSE, FALSE))
    /\ skip_count' = skip_count + 1
    /\ k' = k + 1
    /\ UNCHANGED <<site, formats_and_sizes, dir, files, pc, audio_format_selection,
                   download_count, completed, rerun, fresh, partial, calls, others>>

\* Line 279: the request for the file raises RequestException.
StreamRequestFails ==
    /\ InLoop
    /\ Returned(Resolve(k, audio_format_selection))
    /\ LET name == Resolve(k, audio_format_selection).val.filename
       IN  /\ ~isfile(files, name)
           /\ log' = Append(log, Entry(k, "stream_request_failed", name, TRUE, FALSE))
    /\ pc' = "failed"
    /\ UNCHANGED <<site, formats_and_sizes, dir, files, audio_format_selection, k,
                   download_count, skip_count, completed, rerun, fresh, partial,
                   calls, others>>

\* Line 287: open raises, after the request has returned.
OpenRaises ==
    /\ InLoop
    /\ Returned(Resolve(k, audio_format_selection))
    /\ LET name == Resolve(k, audio_format_selection).val.filename
       IN  /\ ~isfile(files, name)
           /\ OpenRaisesFor(name)
           /\ log' = Append(log, Entry(k, "IsADirectoryError", name, TRUE, FALSE))
    /\ pc' = "crashed"
    /\ UNCHANGED <<site, formats_and_sizes, dir, files, audio_format_selection, k,
                   download_count, skip_count, completed, rerun, fresh, partial,
                   calls, others>>

\* A failing transfer caught inside the loop, which goes on to the next track.
StreamFailsSwallowed ==
    /\ InLoop
    /\ Returned(Resolve(k, audio_format_selection))
    /\ LET name == Resolve(k, audio_format_selection).val.filename
       IN  /\ ~isfile(files, name)
           /\ ~OpenRaisesFor(name)
           /\ \E content \in {"empty", "incomplete"} :
                files' = WithFile(files, name, content)
           /\ log' = Append(log, Entry(k, "stream_failed", name, TRUE, TRUE))
    /\ partial' = partial \cup {<<k, audio_format_selection>>}
    /\ k' = k + 1
    /\ UNCHANGED <<site, formats_and_sizes, dir, pc, audio_format_selection,
                   download_count, skip_count, completed, rerun, fresh, calls, others>>

\* A failing transfer whose file is removed again.
StreamFailsCleaningUp ==
    /\ InLoop
    /\ Returned(Resolve(k, audio_format_selection))
    /\ LET name == Resolve(k, audio_format_selection).val.filename
       IN  /\ ~isfile(files, name)
           /\ ~OpenRaisesFor(name)
           /\ log' = Append(log, Entry(k, "stream_failed", name, TRUE, TRUE))
    /\ partial' = partial \cup {<<k, audio_format_selection>>}
    /\ pc' = "failed"
    /\ UNCHANGED <<site, formats_and_sizes, dir, files, audio_format_selection, k,
                   download_count, skip_count, completed, rerun, fresh, calls, others>>

\* Lines 287-290: the file is opened, then iter_content raises before the
\* first chunk or after some chunks; the with block closes the file.
StreamFails ==
    /\ InLoop
    /\ Returned(Resolve(k, audio_format_selection))
    /\ LET name == Resolve(k, audio_format_selection).val.filename
       IN  /\ ~isfile(files, name)
           /\ ~OpenRaisesFor(name)
           /\ \E content \in {"empty", "incomplete"} :
                files' = WithFile(files, name, content)
           /\ log' = Append(log, Entry(k, "stream_failed", name, TRUE, TRUE))
    /\ partial' = partial \cup {<<k, audio_format_selection>>}
    /\ pc' = "failed"
    /\ UNCHANGED <<site, formats_and_sizes, dir, audio_format_selection, k,
                   download_count, skip_count, completed, rerun, fresh, calls, others>>

\* Lines 338-342: the file is fetched and written to its end.
Download ==
    /\ InLoop
    /\ Returned(Resolve(k, audio_format_selection))
    /\ LET name == Resolve(k, audio_format_selection).val.filename
       IN  /\ ~isfile(files, name)
           /\ ~OpenRaisesFor(name)
           /\ files' = WithFile(files, name, "full")
           /\ log' = Append(log, Entry(k, "downloaded", name, TRUE, TRUE))
    /\ download_count' = download_count + 1
    /\ k' = k + 1
    /\ UNCHANGED <<site, formats_and_sizes, dir, pc, audio_format_selection,
                   skip_count, completed, rerun, fresh, partial, calls, others>>

\* Line 343: the loop is over, the totals are printed.
Finish ==
    /\ pc = "loop"
    /\ k > Len(site)
    /\ pc' = "finished"
    /\ completed' = completed \cup {audio_format_selection}
    /\ UNCHANGED <<site, formats_and_sizes, dir, files, audio_format_selection, k,
                   download_count, skip_count, log, rerun, fresh, partial, calls, others>>

Next ==
    \/ StartDownload
    \/ PageRequestFails
    \/ ResolveRaises
    \/ Skip
    \/ StreamRequestFails
    \/ OpenRaises
    \/ StreamFails
    \/ Download
    \/ Finish

Spec == Init /\ [][Next]_vars

-----------------------------------------------------------------------------
(* Properties of download.                                                 *)

\* The step is one iteration of the loop, and LastEntry' is what it did.
Iterated == Len(log') = Len(log) + 1
LastEntry == log[Len(log)]

\* The names the album's tracks resolve to under the current selection.
ResolvedNames ==
    {Resolve(t, audio_format_selection).val.filename :
        t \in {t \in 1..Len(site) : Returned(Resolve(t, audio_format_selection))}}

\* C1: a call that repeats a completed call (same album, directory and format
\* index, nothing removed in between) ends with downloaded = 0 and skipped =
\* the number of tracks.
C1_SecondRunSkipsAll ==
    (pc = "finished" /\ rerun) =>
        /\ download_count = 0
        /\ skip_count = Len(site)

C1_Witness ==
    /\ pc = "finished"
    /\ rerun
    /\ Len(site) = 2
    /\ skip_count = 2
    /\ download_count = 0

\* C2 as claimed: a call with a format index of the album that starts
\* without any of the album's files and runs to its end has created the
\* directory, resolved and fetched every track, and ends with downloaded = N
\* and skipped = 0, also when tracks resolve to one filename.
C2_FirstRunDownloadsAll ==
    (/\ pc = "finished"
     /\ fresh
     /\ audio_format_selection \in 0..(Len(formats_and_sizes) - 1)) =>
        /\ dir = "dir"
        /\ Len(log) = Len(site)
        /\ \A i \in 1..Len(log) : log[i].stream_get
        /\ download_count = Len(site)
        /\ skip_count = 0

\* C2 as amended: such a call has created the directory and resolved every
\* track; it fetched one file per distinct filename, so downloaded = the
\* number of distinct filenames and skipped = N less that number.
C2_FirstRunDownloadsEachName ==
    (pc = "finished" /\ fresh) =>
        /\ dir = "dir"
        /\ Len(log) = Len(site)
        /\ Cardinality({i \in 1..Len(log) : log[i].stream_get}) = Cardinality(ResolvedNames)
        /\ download_count = Cardinality(ResolvedNames)
        /\ skip_count = Len(site) - Cardinality(ResolvedNames)

C2_Witness ==
    /\ pc = "finished"
    /\ fresh
    /\ Len(site) = 2
    /\ download_count = 1
    /\ skip_count = 1

\* C3: an iteration whose resolved filename is a file of the directory adds
\* one to skipped, requests no download, opens and writes no file, leaves
\* downloaded alone and goes on to the next track.
C3_SkipLeavesFile ==
    [][(/\ InLoop
        /\ Iterated
        /\ LastEntry'.result # "page_request_failed"
        /\ Returned(Resolve(k, audio_format_selection))
        /\ Resolve(k, audio_format_selection).val.filename \in DOMAIN files)
       => (/\ skip_count' = skip_count + 1
           /\ download_count' = download_count
           /\ files' = files
           /\ ~LastEntry'.stream_get
           /\ ~LastEntry'.opened
           /\ k' = k + 1
           /\ pc' = "loop")]_vars

C3_Witness ==
    \E i \in 1..Len(log) :
        /\ log[i].result = "skipped"
        /\ log[i].name \in DOMAIN files
        /\ files[log[i].name] = "old"

\* C4: a failing request or transfer at track k ends the call there with the
\* error: the loop does not advance, the counts and the files of earlier
\* tracks stay, nothing more is requested or written by that call, and no
\* totals are printed.
C4_FailureHalts ==
    [][/\ (Iterated /\ LastEntry'.result \in TransportFailures)
            => /\ pc' = "failed"
               /\ k' = k
               /\ download_count' = download_count
               /\ skip_count' = skip_count
               /\ \A n \in DOMAIN files : n \in DOMAIN files' /\ files'[n] = files[n]
       /\ pc = "failed"
            => /\ pc' # "finished"
               /\ files' = files
               /\ log' # log => calls' = calls + 1]_vars

C4_Witness ==
    /\ pc = "failed"
    /\ k = 2
    /\ Len(log) = 2
    /\ log[1].result = "downloaded"
    /\ log[2].result = "stream_failed"
    /\ files[log[1].name] = "full"

\* C5: an iteration whose format index equals the number of album formats, or
\* is below zero, or is past the links of the track page, raises the
\* out-of-range error; it requests and writes no file.
C5_OutOfRangeRaises ==
    \A i \in 1..Len(log) :
        (/\ log[i].result # "page_request_failed"
         /\ \/ audio_format_selection = Len(formats_and_sizes)
            \/ audio_format_selection < 0
            \/ audio_format_selection >= Len(site[log[i].track]))
        => (/\ log[i].result = "IndexError"
            /\ ~log[i].stream_get
            /\ ~log[i].opened)

PartialContents == {"empty", "incomplete"}

\* C10: a failing request creates no file; a transfer that fails after the
\* file was opened leaves the empty or incomplete file in the directory; the
\* file stays as it is, and every later iteration for that track under that
\* format index skips it without a request or a write.
C10_PartialFileStays ==
    [][/\ (Iterated /\ LastEntry'.result = "stream_request_failed") => files' = files
       /\ (Iterated /\ LastEntry'.result = "stream_failed")
            => /\ LastEntry'.name \in DOMAIN files'
               /\ files'[LastEntry'.name] \in PartialContents
       /\ \A p \in partial :
            LET name == Resolve(p[1], p[2]).val.filename
            IN  /\ name \in DOMAIN files
                /\ files[name] \in PartialContents
                /\ name \in DOMAIN files'
                /\ files'[name] = files[name]
       /\ (/\ InLoop
           /\ Iterated
           /\ LastEntry'.result # "page_request_failed"
           /\ <<k, audio_format_selection>> \in partial)
            => /\ LastEntry'.result = "skipped"
               /\ ~LastEntry'.stream_get
               /\ ~LastEntry'.opened
               /\ skip_count' = skip_count + 1]_vars

C10_Witness ==
    /\ calls = 2
    /\ \E i \in 1..Len(log) :
        /\ log[i].result = "skipped"
        /\ <<log[i].track, audio_format_selection>> \in partial
        /\ files[log[i].name] \in PartialContents

=============================================================================
